---- MODULE Spec2Model ----
(***************************************************************************)
(* Balanced Collatz bit generators.                                        *)
(*                                                                         *)
(*   collatz_generator.py : generate_password(seed, length)   ("plain")    *)
(*   secure_collatz.py    : generate_secure_password(length)  ("secure")   *)
(*                          perform_statistical_tests(bit_string)          *)
(*                                                                         *)
(* One call of a generator is a process with a position pc:                *)
(*   "call"     the function has been entered with its arguments bound     *)
(*   "loop"     at the head of `while len(password) < length`              *)
(*   "returned" after `return "".join(password)`                           *)
(*   "exit"     after `sys.exit(1)`                                        *)
(* Python strings are sequences of one-character strings; the list         *)
(* `password` is a sequence of such strings.  Python integers are          *)
(* unbounded, and so are the model's.                                      *)
(***************************************************************************)
EXTENDS Integers, Sequences, FiniteSets

VARIABLES
    variant,         \* which generator is running: "plain" or "secure"
    length,          \* argument `length`
    seed,            \* argument `seed` (plain variant; 0 in the secure one)
    pc,              \* position of the call
    required_zeros,  \* local
    required_ones,   \* local
    current_zeros,   \* local
    current_ones,    \* local
    password,        \* local: list of one-character strings
    current_n,       \* local: the recurrence state
    key,             \* local (secure): the 32-byte HMAC key
    result,          \* the returned string
    effects,         \* history: the kinds of work the call has done so far
    stepped,         \* history: what the stepper returned in the last iteration
    fresh,           \* history: current_n is the value of a secrets.randbits draw
    twin,            \* a second plain call with the same arguments (SpecTwin)
    bit_string,      \* perform_statistical_tests: argument
    spc,             \* perform_statistical_tests: position
    stats            \* perform_statistical_tests: locals

genVars  == <<variant, length, seed, pc, required_zeros, required_ones,
              current_zeros, current_ones, password, current_n, key, result,
              effects, stepped, fresh>>
statVars == <<bit_string, spc, stats>>
vars     == <<genVars, twin, statVars>>

(***************************************************************************)
(* Bounds of the model.                                                    *)
(***************************************************************************)
\* lengths 0..MaxLen are tried, odd ones included
MaxLen == 7
\* plain seeds -MaxSeed..MaxSeed (--seed takes any integer)
MaxSeed == 25
\* secrets.randbits(256) is scaled down to a draw from 0..MaxRand
MaxRand == 15
\* the first four bytes of an HMAC digest are scaled down to 0..MaxHmac
MaxHmac == 3
\* the secure loop is followed while current_n <= MaxState
MaxState == 200
\* bit strings of up to MaxBits characters are analysed
MaxBits == 7
\* steps allowed to a seed's trajectory to reach 1
MaxTrajectory == 30

Lengths == 0..MaxLen
Seeds   == (-MaxSeed)..MaxSeed
Keys    == {"keyA", "keyB"}
NoKey   == "unset"

(***************************************************************************)
(* Strings.                                                                *)
(***************************************************************************)
RECURSIVE Join(_)
\* "".join(list)
Join(list) == IF list = <<>> THEN <<>> ELSE Head(list) \o Join(Tail(list))

RECURSIVE Count(_, _)
\* the number of elements of s equal to c (str.count, Counter)
Count(s, c) ==
    IF s = <<>> THEN 0
    ELSE (IF Head(s) = c THEN 1 ELSE 0) + Count(Tail(s), c)

IsPrefix(s, t) == Len(s) <= Len(t) /\ SubSeq(t, 1, Len(s)) = s

(***************************************************************************)
(* The steppers.                                                           *)
(***************************************************************************)
\* collatz_step with the parity test inverted
collatz_stepInverted(n) == IF n % 2 # 0 THEN n \div 2 ELSE 3 * n + 1

\* n // 2 if n is even, 3 * n + 1 otherwise
collatz_step(n) == IF n % 2 = 0 THEN n \div 2 ELSE 3 * n + 1

\* generate_k_derived(n, key): h stands for int.from_bytes(h[:4]) of
\* HMAC-SHA256(key, bytes(n)).  The digest is not computed: the action that
\* steps draws h from 0..MaxHmac, so every keyed function is covered.
generate_k_derived(n, k, h) == IF h = 0 THEN 1 ELSE h

\* n // 2 if n is even, 3 * n + k otherwise
secure_collatz_step(n, k, h) ==
    IF n % 2 = 0 THEN n \div 2 ELSE 3 * n + generate_k_derived(n, k, h)

(***************************************************************************)
(* The conditions of the two generators.                                   *)
(***************************************************************************)
\* LengthIsOdd with the test inverted
LengthIsOddInverted(len) == len % 2 = 0

\* `if length % 2 != 0`
LengthIsOdd(len) == len % 2 # 0

\* `bit = '0' if current_n % 2 == 0 else '1'`
PlainBit(n) == IF n % 2 = 0 THEN "0" ELSE "1"

\* SecureBit with the plain generator's polarity
SecureBitAsPlain(n) == IF n % 2 = 0 THEN "0" ELSE "1"

\* `bit = '1' if is_even else '0'`
SecureBit(n) == IF n % 2 = 0 THEN "1" ELSE "0"

\* ZeroFits with <= for <
ZeroFitsOffByOne(cz, rz) == cz <= rz

\* `if current_zeros < required_zeros`
ZeroFits(cz, rz) == cz < rz

\* OneFits that stops one short of the quota
OneFitsShort(co, ro) == co < ro - 1

\* OneFits with <= for <
OneFitsOffByOne(co, ro) == co <= ro

\* `if current_ones < required_ones`
OneFits(co, ro) == co < ro

\* NeedsReseed with < for <=
NeedsReseedStrict(n) == n < 1

\* `if current_n <= 1`
NeedsReseed(n) == n <= 1

(***************************************************************************)
(* generate_password(seed, length)                                         *)
(***************************************************************************)
\* PlainCall that takes a falsy seed (0) as no seed and draws one, as main
\* does for a missing --seed
PlainCallRandomSeed ==
    /\ pc = "call"
    /\ variant = "plain"
    /\ IF LengthIsOdd(length)
       THEN /\ pc' = "exit"
            /\ UNCHANGED <<required_zeros, required_ones, current_zeros,
                           current_ones, password, current_n, effects>>
       ELSE /\ required_zeros' = length \div 2
            /\ required_ones' = length \div 2
            /\ current_zeros' = 0
            /\ current_ones' = 0
            /\ password' = <<>>
            /\ IF seed = 0
               THEN \E r \in 1..MaxSeed : current_n' = r
               ELSE current_n' = seed
            /\ effects' = effects \cup {"list"}
            /\ pc' = "loop"
    /\ UNCHANGED <<variant, length, seed, key, result, stepped, fresh>>

\* entry: the parity check, then the locals
PlainCall ==
    /\ pc = "call"
    /\ variant = "plain"
    /\ IF LengthIsOdd(length)
       THEN /\ pc' = "exit"
            /\ UNCHANGED <<required_zeros, required_ones, current_zeros,
                           current_ones, password, current_n, effects>>
       ELSE /\ required_zeros' = length \div 2
            /\ required_ones' = length \div 2
            /\ current_zeros' = 0
            /\ current_ones' = 0
            /\ password' = <<>>
            /\ current_n' = seed
            /\ effects' = effects \cup {"list"}
            /\ pc' = "loop"
    /\ UNCHANGED <<variant, length, seed, key, result, stepped, fresh>>

\* PlainIter with the stepper call moved into the discard branches
PlainIterSkipStep ==
    /\ pc = "loop"
    /\ variant = "plain"
    /\ Len(password) < length
    /\ IF PlainBit(current_n) = "0"
       THEN IF ZeroFits(current_zeros, required_zeros)
            THEN /\ password' = Append(password, <<"0">>)
                 /\ current_zeros' = current_zeros + 1
                 /\ effects' = effects \cup {"append"}
                 /\ UNCHANGED <<current_ones, current_n, stepped>>
            ELSE /\ current_n' = collatz_step(current_n)
                 /\ stepped' = collatz_step(current_n)
                 /\ effects' = effects \cup {"step"}
                 /\ UNCHANGED <<password, current_zeros, current_ones>>
       ELSE IF OneFits(current_ones, required_ones)
            THEN /\ password' = Append(password, <<"1">>)
                 /\ current_ones' = current_ones + 1
                 /\ effects' = effects \cup {"append"}
                 /\ UNCHANGED <<current_zeros, current_n, stepped>>
            ELSE /\ current_n' = collatz_step(current_n)
                 /\ stepped' = collatz_step(current_n)
                 /\ effects' = effects \cup {"step"}
                 /\ UNCHANGED <<password, current_zeros, current_ones>>
    /\ UNCHANGED <<variant, length, seed, pc, required_zeros, required_ones,
                   key, result, fresh>>

\* one iteration of the while loop
PlainIter ==
    /\ pc = "loop"
    /\ variant = "plain"
    /\ Len(password) < length
    /\ IF PlainBit(current_n) = "0"
       THEN IF ZeroFits(current_zeros, required_zeros)
            THEN /\ password' = Append(password, <<"0">>)
                 /\ current_zeros' = current_zeros + 1
                 /\ effects' = effects \cup {"append", "step"}
                 /\ UNCHANGED current_ones
            ELSE /\ effects' = effects \cup {"step"}
                 /\ UNCHANGED <<password, current_zeros, current_ones>>
       ELSE IF OneFits(current_ones, required_ones)
            THEN /\ password' = Append(password, <<"1">>)
                 /\ current_ones' = current_ones + 1
                 /\ effects' = effects \cup {"append", "step"}
                 /\ UNCHANGED current_zeros
            ELSE /\ effects' = effects \cup {"step"}
                 /\ UNCHANGED <<password, current_zeros, current_ones>>
    /\ current_n' = collatz_step(current_n)
    /\ stepped' = collatz_step(current_n)
    /\ UNCHANGED <<variant, length, seed, pc, required_zeros, required_ones,
                   key, result, fresh>>

\* the loop condition fails: return "".join(password)
PlainReturn ==
    /\ pc = "loop"
    /\ variant = "plain"
    /\ ~(Len(password) < length)
    /\ result' = Join(password)
    /\ effects' = effects \cup {"return"}
    /\ pc' = "returned"
    /\ UNCHANGED <<variant, length, seed, required_zeros, required_ones,
                   current_zeros, current_ones, password, current_n, key,
                   stepped, fresh>>

(***************************************************************************)
(* generate_secure_password(length)                                        *)
(***************************************************************************)
SecureCall ==
    /\ pc = "call"
    /\ variant = "secure"
    /\ IF LengthIsOdd(length)
       THEN /\ pc' = "exit"
            /\ UNCHANGED <<required_zeros, required_ones, current_zeros,
                           current_ones, password, current_n, key, effects,
                           fresh>>
       ELSE /\ required_zeros' = length \div 2
            /\ required_ones' = length \div 2
            /\ current_zeros' = 0
            /\ current_ones' = 0
            /\ password' = <<>>
            /\ \E r \in 0..MaxRand : current_n' = r
            /\ \E k \in Keys : key' = k
            /\ fresh' = TRUE
            /\ effects' = effects \cup {"list", "randbits", "token_bytes"}
            /\ pc' = "loop"
    /\ UNCHANGED <<variant, length, seed, result, stepped>>

\* one iteration of the while loop; h is the HMAC value of this step
SecureIter ==
    /\ pc = "loop"
    /\ variant = "secure"
    /\ Len(password) < length
    /\ current_n <= MaxState
    /\ IF SecureBit(current_n) = "0"
       THEN IF ZeroFits(current_zeros, required_zeros)
            THEN /\ password' = Append(password, <<"0">>)
                 /\ current_zeros' = current_zeros + 1
                 /\ UNCHANGED current_ones
            ELSE UNCHANGED <<password, current_zeros, current_ones>>
       ELSE IF OneFits(current_ones, required_ones)
            THEN /\ password' = Append(password, <<"1">>)
                 /\ current_ones' = current_ones + 1
                 /\ UNCHANGED current_zeros
            ELSE UNCHANGED <<password, current_zeros, current_ones>>
    /\ \E h \in 0..MaxHmac :
          stepped' = secure_collatz_step(current_n, key, h)
    /\ IF NeedsReseed(stepped')
       THEN /\ \E r \in 0..MaxRand : current_n' = r
            /\ fresh' = TRUE
       ELSE /\ current_n' = stepped'
            /\ fresh' = FALSE
    /\ effects' = effects \cup {"step"}
                    \cup (IF password' # password THEN {"append"} ELSE {})
                    \cup (IF fresh' THEN {"randbits"} ELSE {})
    /\ UNCHANGED <<variant, length, seed, pc, required_zeros, required_ones,
                   key, result>>

SecureReturn ==
    /\ pc = "loop"
    /\ variant = "secure"
    /\ ~(Len(password) < length)
    /\ result' = Join(password)
    /\ effects' = effects \cup {"return"}
    /\ pc' = "returned"
    /\ UNCHANGED <<variant, length, seed, required_zeros, required_ones,
                   current_zeros, current_ones, password, current_n, key,
                   stepped, fresh>>

(***************************************************************************)
(* Initial states and the specification of one call of either generator.   *)
(***************************************************************************)
\* the second call when there is none
NoTwin == [pc |-> "off"]

\* perform_statistical_tests is not running
StatsIdle ==
    /\ bit_string = <<>>
    /\ spc = "off"
    /\ stats = [n |-> 0]

InitLocals ==
    /\ pc = "call"
    /\ required_zeros = 0
    /\ required_ones = 0
    /\ current_zeros = 0
    /\ current_ones = 0
    /\ password = <<>>
    /\ current_n = 0
    /\ key = NoKey
    /\ result = <<>>
    /\ effects = {}
    /\ stepped = 0
    /\ fresh = FALSE

InitPlain ==
    /\ variant = "plain"
    /\ length \in Lengths
    /\ seed \in Seeds
    /\ InitLocals

InitSecure ==
    /\ variant = "secure"
    /\ length \in Lengths
    /\ seed = 0
    /\ InitLocals

Init ==
    /\ InitPlain \/ InitSecure
    /\ twin = NoTwin
    /\ StatsIdle

Next ==
    \/ PlainCall /\ UNCHANGED <<twin, statVars>>
    \/ PlainIter /\ UNCHANGED <<twin, statVars>>
    \/ PlainReturn /\ UNCHANGED <<twin, statVars>>
    \/ SecureCall /\ UNCHANGED <<twin, statVars>>
    \/ SecureIter /\ UNCHANGED <<twin, statVars>>
    \/ SecureReturn /\ UNCHANGED <<twin, statVars>>

Spec == Init /\ [][Next]_vars

(***************************************************************************)
(* Two calls of generate_password with the same arguments, step for step.  *)
(* The second call keeps its locals in the record twin.                    *)
(***************************************************************************)
TwinEntry ==
    [pc |-> "call", required_zeros |-> 0, required_ones |-> 0,
     current_zeros |-> 0, current_ones |-> 0, password |-> <<>>,
     current_n |-> 0, result |-> <<>>]

\* the first call's position, locals and result, laid out like twin
MainRun ==
    [pc |-> pc, required_zeros |-> required_zeros,
     required_ones |-> required_ones, current_zeros |-> current_zeros,
     current_ones |-> current_ones, password |-> password,
     current_n |-> current_n, result |-> result]

TwinCall ==
    /\ twin.pc = "call"
    /\ twin' = IF LengthIsOdd(length)
               THEN [twin EXCEPT !.pc = "exit"]
               ELSE [twin EXCEPT !.required_zeros = length \div 2,
                                 !.required_ones = length \div 2,
                                 !.current_zeros = 0,
                                 !.current_ones = 0,
                                 !.password = <<>>,
                                 !.current_n = seed,
                                 !.pc = "loop"]

TwinIter ==
    /\ twin.pc = "loop"
    /\ Len(twin.password) < length
    /\ LET accepted ==
               IF PlainBit(twin.current_n) = "0"
               THEN IF ZeroFits(twin.current_zeros, twin.required_zeros)
                    THEN [twin EXCEPT
                            !.password = Append(twin.password, <<"0">>),
                            !.current_zeros = twin.current_zeros + 1]
                    ELSE twin
               ELSE IF OneFits(twin.current_ones, twin.required_ones)
                    THEN [twin EXCEPT
                            !.password = Append(twin.password, <<"1">>),
                            !.current_ones = twin.current_ones + 1]
                    ELSE twin
       IN  twin' = [accepted EXCEPT
                      !.current_n = collatz_step(twin.current_n)]

TwinReturn ==
    /\ twin.pc = "loop"
    /\ ~(Len(twin.password) < length)
    /\ twin' = [twin EXCEPT !.result = Join(twin.password),
                            !.pc = "returned"]

InitTwin ==
    /\ InitPlain
    /\ twin = TwinEntry
    /\ StatsIdle

NextTwin ==
    \/ PlainCall /\ TwinCall /\ UNCHANGED statVars
    \/ PlainIter /\ TwinIter /\ UNCHANGED statVars
    \/ PlainReturn /\ TwinReturn /\ UNCHANGED statVars

SpecTwin == InitTwin /\ [][NextTwin]_vars

(***************************************************************************)
(* generate_password alone, run to its end.  The loop is a sequential,     *)
(* single-threaded computation: a step that can be taken is taken.         *)
(***************************************************************************)
InitPlainOnly ==
    /\ InitPlain
    /\ twin = NoTwin
    /\ StatsIdle

NextPlain ==
    \/ PlainCall /\ UNCHANGED <<twin, statVars>>
    \/ PlainIter /\ UNCHANGED <<twin, statVars>>
    \/ PlainReturn /\ UNCHANGED <<twin, statVars>>

SpecPlainFair == InitPlainOnly /\ [][NextPlain]_vars /\ WF_vars(NextPlain)

(***************************************************************************)
(* perform_statistical_tests(bit_string)                                   *)
(*                                                                         *)
(* Python floats are modelled by exact rationals <<numerator,              *)
(* denominator>> with a positive denominator, in lowest terms.  The        *)
(* z-score, a quotient by a square root, is kept as its sign and its       *)
(* square:  z = sgn * sqrt(sq).                                            *)
(***************************************************************************)
Abs(x) == IF x < 0 THEN -x ELSE x

RECURSIVE Gcd(_, _)
Gcd(a, b) == IF b = 0 THEN a ELSE Gcd(b, a % b)

\* the rational a/b, b # 0
Rat(a, b) ==
    LET g == Gcd(Abs(a), Abs(b))
        sg == IF b < 0 THEN -1 ELSE 1
    IN  <<(sg * a) \div g, (sg * b) \div g>>

RInt(a)    == <<a, 1>>
RAdd(x, y) == Rat(x[1] * y[2] + y[1] * x[2], x[2] * y[2])
RSub(x, y) == Rat(x[1] * y[2] - y[1] * x[2], x[2] * y[2])
RMul(x, y) == Rat(x[1] * y[1], x[2] * y[2])
RDiv(x, y) == Rat(x[1] * y[2], x[2] * y[1])
RLt(x, y)  == x[1] * y[2] < y[1] * x[2]
RLeq(x, y) == x[1] * y[2] <= y[1] * x[2]
RSign(x)   == IF x[1] > 0 THEN 1 ELSE IF x[1] < 0 THEN -1 ELSE 0

\* x / math.sqrt(v) for v > 0
DivBySqrt(x, v) == [sgn |-> RSign(x), sq |-> RDiv(RMul(x, x), v)]
\* the float x as a signed root
AsRoot(x) == [sgn |-> RSign(x), sq |-> RMul(x, x)]
\* a <= b for signed roots
RootLeq(a, b) ==
    IF a.sgn # b.sgn THEN a.sgn < b.sgn
    ELSE IF a.sgn = 0 THEN TRUE
    ELSE IF a.sgn = 1 THEN RLeq(a.sq, b.sq)
    ELSE RLeq(b.sq, a.sq)

\* 3.841
ChiCritical == Rat(3841, 1000)
\* 1.96
ZCritical == Rat(196, 100)

\* chi_sq of the counts n0, n1 of a string of n > 0 characters
ChiSquare(n0, n1, n) ==
    LET expected_count == Rat(n, 2)
        d0 == RSub(RInt(n0), expected_count)
        d1 == RSub(RInt(n1), expected_count)
    IN  RAdd(RDiv(RMul(d0, d0), expected_count),
             RDiv(RMul(d1, d1), expected_count))

\* expected_runs = 1 + (2 * n0 * n1) / n
ExpectedRuns(n0, n1, n) == RAdd(RInt(1), Rat(2 * n0 * n1, n))

\* RunsVariance with n for n - 1 in the denominator
RunsVarianceCubed(n0, n1, n) ==
    LET numerator == 2 * n0 * n1 * (2 * n0 * n1 - n)
        denominator == (n * n) * n
    IN  IF denominator # 0 THEN Rat(numerator, denominator) ELSE RInt(0)

\* variance = numerator / denominator if denominator != 0 else 0
RunsVariance(n0, n1, n) ==
    LET numerator == 2 * n0 * n1 * (2 * n0 * n1 - n)
        denominator == (n * n) * (n - 1)
    IN  IF denominator # 0 THEN Rat(numerator, denominator) ELSE RInt(0)

\* z_score = (runs - expected_runs) / std_dev if std_dev > 0 else 0.0
ZScore(runs, expected_runs, variance) ==
    IF RSign(variance) > 0
    THEN DivBySqrt(RSub(RInt(runs), expected_runs), variance)
    ELSE AsRoot(RInt(0))

\* InBand without the lower bound
InBandUpperOnly(z) == RootLeq(z, AsRoot(ZCritical))

\* -1.96 <= z_score <= 1.96
InBand(z) ==
    /\ RootLeq(AsRoot(RSub(RInt(0), ZCritical)), z)
    /\ RootLeq(z, AsRoot(ZCritical))

BitStrings == UNION {[1..m -> {"0", "1"}] : m \in 0..MaxBits}

NoStats ==
    [n |-> 0, n0 |-> 0, n1 |-> 0, chi_sq |-> RInt(0), chi_pass |-> FALSE,
     runs |-> 0, i |-> 0, expected_runs |-> RInt(0), variance |-> RInt(0),
     z_score |-> AsRoot(RInt(0)), runs_pass |-> FALSE]

\* entry: n, the early return, the chi-square test and the start of the
\* runs count
StatsCall ==
    /\ spc = "call"
    /\ LET n == Len(bit_string)
           n0 == Count(bit_string, "0")
           n1 == Count(bit_string, "1")
       IN  IF n = 0
           THEN /\ spc' = "skipped"
                /\ UNCHANGED stats
           ELSE /\ stats' = [stats EXCEPT
                               !.n = n, !.n0 = n0, !.n1 = n1,
                               !.chi_sq = ChiSquare(n0, n1, n),
                               !.chi_pass =
                                   RLt(ChiSquare(n0, n1, n), ChiCritical),
                               !.runs = IF n > 0 THEN 1 ELSE 0,
                               !.i = 1]
                /\ spc' = "runs"
    /\ UNCHANGED bit_string

\* one iteration of `for i in range(1, n)`; Python indexes from 0
StatsRunsIter ==
    /\ spc = "runs"
    /\ stats.i < stats.n
    /\ stats' = [stats EXCEPT
                   !.runs = IF bit_string[stats.i + 1] # bit_string[stats.i]
                            THEN stats.runs + 1 ELSE stats.runs,
                   !.i = stats.i + 1]
    /\ UNCHANGED <<bit_string, spc>>

\* after the loop: expected_runs, variance, z_score and the verdict
StatsFinish ==
    /\ spc = "runs"
    /\ ~(stats.i < stats.n)
    /\ LET expected_runs == ExpectedRuns(stats.n0, stats.n1, stats.n)
           variance == IF stats.n > 1
                       THEN RunsVariance(stats.n0, stats.n1, stats.n)
                       ELSE RInt(0)
           z_score == IF stats.n > 1
                      THEN ZScore(stats.runs, expected_runs, variance)
                      ELSE AsRoot(RInt(0))
       IN  stats' = [stats EXCEPT
                       !.expected_runs = expected_runs,
                       !.variance = variance,
                       !.z_score = z_score,
                       !.runs_pass = InBand(z_score)]
    /\ spc' = "done"
    /\ UNCHANGED bit_string

InitStats ==
    /\ variant = "secure"
    /\ length = 0
    /\ seed = 0
    /\ InitLocals
    /\ twin = NoTwin
    /\ bit_string \in BitStrings
    /\ spc = "call"
    /\ stats = NoStats

NextStats ==
    \/ StatsCall /\ UNCHANGED <<genVars, twin>>
    \/ StatsRunsIter /\ UNCHANGED <<genVars, twin>>
    \/ StatsFinish /\ UNCHANGED <<genVars, twin>>

SpecStats == InitStats /\ [][NextStats]_vars

(***************************************************************************)
(* Properties of one call (specification Spec).                            *)
(***************************************************************************)
IsEven(x) == x % 2 = 0

\* the bit the variant derives from state n
VariantBit(v, n) ==
    IF v = "plain" THEN (IF IsEven(n) THEN "0" ELSE "1")
                   ELSE (IF IsEven(n) THEN "1" ELSE "0")

\* C1: a returned string has exactly `length` characters, all '0' or '1',
\* with exactly length/2 of each (even length >= 0, both variants).
C1_BalancedOutput ==
    (pc = "returned" /\ IsEven(length) /\ length >= 0) =>
        /\ Len(result) = length
        /\ \A i \in 1..Len(result) : result[i] \in {"0", "1"}
        /\ 2 * Count(result, "0") = length
        /\ 2 * Count(result, "1") = length

C1_Witness ==
    /\ pc = "returned"
    /\ variant = "secure"
    /\ length >= 4
    /\ Len(result) = length

\* C2: with an odd length the call ends in sys.exit(1) before any work: no
\* randomness is drawn, no key, no stepper call, no list, no append, no
\* returned string.
C2_OddLengthFailsFirst ==
    (length % 2 = 1) =>
        /\ pc \in {"call", "exit"}
        /\ effects = {}
        /\ key = NoKey
        /\ ~fresh
        /\ password = <<>>
        /\ result = <<>>

C2_Witness ==
    /\ length % 2 = 1
    /\ pc = "exit"
    /\ variant = "secure"

\* C4: in the secure loop every stepped state <= 1 is replaced by a fresh
\* random draw before the next bit is derived, the key stays the same, and a
\* state <= 1 at the head of the loop is always a fresh draw, never the
\* continuation of the low-value cycle.
C4_DegeneracyGuard ==
    [][(variant = "secure" /\ pc = "loop" /\ pc' = "loop") =>
          /\ key' = key
          /\ key' \in Keys
          /\ (stepped' <= 1 => fresh')
          /\ (stepped' > 1 => (~fresh' /\ current_n' = stepped'))
          /\ (current_n' <= 1 => fresh')
          /\ (fresh' => current_n' \in 0..MaxRand)]_vars

C4_Witness ==
    /\ variant = "secure"
    /\ pc = "loop"
    /\ "step" \in effects
    /\ stepped <= 1
    /\ fresh
    /\ key \in Keys
    /\ Len(password) < length

\* the counters and the accumulator agree and stay within their quotas
C6_QuotaState ==
    (pc \in {"loop", "returned"}) =>
        /\ Len(password) = current_zeros + current_ones
        /\ Len(password) <= length
        /\ current_zeros = Count(password, <<"0">>)
        /\ current_ones = Count(password, <<"1">>)
        /\ current_zeros \in 0..(length \div 2)
        /\ current_ones \in 0..(length \div 2)

\* C6: throughout the loop len(password) = current_zeros + current_ones <=
\* length, each counter equals the number of its characters in password and
\* lies in 0..length/2, and password only grows, by at most one character
\* per iteration.
C6_QuotaInvariant ==
    /\ []C6_QuotaState
    /\ [][(pc = "loop") =>
             /\ IsPrefix(password, password')
             /\ Len(password') <= Len(password) + 1]_vars

C6_Witness ==
    /\ pc = "loop"
    /\ variant = "secure"
    /\ length >= 4
    /\ current_ones = required_ones
    /\ current_zeros = 1
    /\ "step" \in effects

\* C7: every iteration applies the stepper exactly once to the state it
\* started with, whether or not the bit was accepted, and an iteration whose
\* bit is discarded leaves the accumulator and both counters unchanged.
C7_StepAlways ==
    [][(pc = "loop" /\ pc' = "loop") =>
          /\ (variant = "plain") =>
                /\ stepped' = collatz_step(current_n)
                /\ current_n' = stepped'
          /\ (variant = "secure") =>
                /\ \E h \in 0..MaxHmac :
                      stepped' = secure_collatz_step(current_n, key, h)
                /\ (current_n' = stepped' \/ fresh')
          /\ (Count(password, <<VariantBit(variant, current_n)>>)
                  >= length \div 2) =>
                /\ password' = password
                /\ current_zeros' = current_zeros
                /\ current_ones' = current_ones]_vars

C7_Witness ==
    /\ pc = "loop"
    /\ variant = "plain"
    /\ seed = 8
    /\ length = 4
    /\ current_n = 1
    /\ password = << <<"0">>, <<"0">> >>

\* C8: an iteration appends the variant's bit of the state it holds (plain:
\* even '0', odd '1'; secure: even '1', odd '0') if and only if fewer than
\* length/2 of that bit have been accepted, at the end of the accumulator.
C8_QuotaFilteredParity ==
    [][(pc = "loop" /\ pc' = "loop") =>
          LET bit == VariantBit(variant, current_n) IN
          password' = IF Count(password, <<bit>>) < length \div 2
                      THEN password \o << <<bit>> >>
                      ELSE password]_vars

C8_Witness ==
    /\ pc = "returned"
    /\ variant = "plain"
    /\ seed = 8
    /\ length = 4
    /\ result = <<"0", "0", "1", "1">>

(***************************************************************************)
(* Properties of two plain calls (SpecTwin) and of a plain call run to     *)
(* its end (SpecPlainFair).                                                *)
(***************************************************************************)
\* C3: two calls of generate_password with the same (seed, length) are in
\* the same state (position, counters, accumulator, current_n) after every
\* step, and return the same string.
C3_Deterministic == twin = MainRun

C3_Witness ==
    /\ pc = "returned"
    /\ twin.pc = "returned"
    /\ seed = 7
    /\ length >= 4
    /\ twin.result = result
    /\ Len(result) = length

RECURSIVE ReachesCycle(_, _)
\* the Collatz trajectory of n reaches 1 (and so 4 -> 2 -> 1) in `fuel` steps
ReachesCycle(n, fuel) ==
    IF n = 1 THEN TRUE
    ELSE IF fuel = 0 THEN FALSE
    ELSE ReachesCycle(IF n % 2 = 0 THEN n \div 2 ELSE 3 * n + 1, fuel - 1)

\* C5: for a seed >= 1 whose trajectory reaches the 4 -> 2 -> 1 cycle and an
\* even length >= 0, generate_password eventually returns.
C5_PlainTerminates ==
    (seed >= 1 /\ ReachesCycle(seed, MaxTrajectory) /\ length % 2 = 0)
        => <>(pc = "returned" /\ Len(result) = length)

C5_Witness ==
    /\ pc = "returned"
    /\ seed = 1
    /\ length >= 4
    /\ Len(result) = length
    /\ current_n \in {1, 2, 4}

\* with seed 0 the call is at the loop, at state 0, holding only '0'
C10_ZeroState ==
    (variant = "plain" /\ seed = 0 /\ length % 2 = 0 /\ length >= 2) =>
        /\ collatz_step(0) = 0
        /\ pc \in {"call", "loop"}
        /\ pc = "loop" =>
              /\ current_n = 0
              /\ current_ones = 0
              /\ Len(password) <= length \div 2
              /\ \A i \in 1..Len(password) : password[i] = <<"0">>
              /\ Len(password) < length

\* C10: 0 is a fixed point of collatz_step; with seed 0 and an even length
\* >= 2 the state stays 0, the accumulator holds only '0' and never more than
\* length/2 characters, and the call never returns: it ends up looping
\* forever with the accumulator stuck at length/2 characters.
C10_SeedZeroNeverReturns ==
    /\ []C10_ZeroState
    /\ (variant = "plain" /\ seed = 0 /\ length % 2 = 0 /\ length >= 2) =>
          <>[](pc = "loop" /\ Len(password) = length \div 2)

C10_Witness ==
    /\ variant = "plain"
    /\ seed = 0
    /\ length >= 4
    /\ pc = "loop"
    /\ Len(password) = length \div 2
    /\ "step" \in effects

(***************************************************************************)
(* Properties of perform_statistical_tests (SpecStats).                    *)
(***************************************************************************)
\* the number of adjacent positions of s whose characters differ
Changes(s) == Cardinality({j \in 1..(Len(s) - 1) : s[j] # s[j + 1]})

\* C9: for a non-empty bit string the runs test computes runs = 1 + the
\* number of adjacent changes, expected_runs = 1 + 2*n0*n1/n, variance =
\* 2*n0*n1*(2*n0*n1 - n) / (n^2*(n-1)) for n > 1, z = 0 when n <= 1 or the
\* variance is 0, and PASS exactly when -1.96 <= z <= 1.96, that is when
\* z^2 <= 3.8416; "0101" gives runs 4, expected_runs 3, variance 32/48, PASS.
C9_RunsTest ==
    (spc = "done") =>
        LET n == Len(bit_string)
            n0 == Cardinality({j \in 1..n : bit_string[j] = "0"})
            n1 == Cardinality({j \in 1..n : bit_string[j] = "1"})
            V == 2 * n0 * n1 * (2 * n0 * n1 - n)
            D == stats.runs * n - n - 2 * n0 * n1
        IN  /\ n > 0
            /\ stats.runs = 1 + Changes(bit_string)
            /\ stats.expected_runs[1] * n
                   = (n + 2 * n0 * n1) * stats.expected_runs[2]
            /\ n > 1 => stats.variance[1] * (n * n * (n - 1))
                            = V * stats.variance[2]
            /\ (n <= 1 \/ V = 0) => stats.z_score.sgn = 0
            /\ (n > 1 /\ V # 0) =>
                  /\ V > 0
                  /\ stats.z_score.sgn = (IF D > 0 THEN 1
                                          ELSE IF D < 0 THEN -1 ELSE 0)
                  /\ stats.z_score.sq[1] * V
                         = D * D * (n - 1) * stats.z_score.sq[2]
            /\ stats.runs_pass <=>
                  \/ n <= 1
                  \/ V = 0
                  \/ 10000 * D * D * (n - 1) <= 38416 * V
            /\ bit_string = <<"0", "1", "0", "1">> =>
                  /\ stats.runs = 4
                  /\ stats.expected_runs = <<3, 1>>
                  /\ stats.variance[1] * 48 = 32 * stats.variance[2]
                  /\ stats.runs_pass

C9_Witness ==
    /\ spc = "done"
    /\ bit_string = <<"0", "1", "0", "1">>
    /\ stats.runs = 4
    /\ stats.runs_pass

\* a string the runs test fails, on the low side
C9_FailReached ==
    /\ spc = "done"
    /\ ~stats.runs_pass
    /\ stats.z_score.sgn = -1

====
